---- MODULE Spec2Model ----
(***************************************************************************)
(* Authentication and request-authorization flow of the leadership-value   *)
(* cards server: password hashing, JWT issue/verify, the authenticateToken *)
(* middleware, loginUser/registerUser and the routes that call them.       *)
(* Every HTTP request is a slot of `reqs`; an action is the code a handler *)
(* runs between two await points.                                          *)
(***************************************************************************)
EXTENDS Integers, Sequences, FiniteSets, TLC

\* ------------------------------------------------------------------ bounds
MaxReq == 2
MaxUsers == 2
MaxValues == 1
MaxTime == 8
MaxSubs == 2

\* ------------------------------------------------------- program constants
\* JWT_EXPIRES_IN = '7d'; the clock of the model counts days.
JWT_EXPIRES_IN == 7

\* process.env.JWT_SECRET || 'your-super-secret-jwt-key': the values the
\* process-wide secret can take over the restarts of the process.
Secrets == {"your-super-secret-jwt-key", "env-secret"}

\* ------------------------------------------------------------ input sets
Reqs == 1..MaxReq
\* The slot of a request that no other request overlaps.
Serial == {1}
Usernames == {"alice", "bob"}
Passwords == {"pw1", "pw2"}
Salts == {"s1"}
\* A key no process ever signs with (a token forged by a third party).
ForeignKey == "foreign-key"
\* "" is a missing or empty field of the request body.
Missing == ""

VARIABLES users, lvalues, secret, now, authToken, reqs,
          submissions, cachedUser, client

vars == <<users, lvalues, secret, now, authToken, reqs, submissions, cachedUser, client>>

\* --------------------------------------------------------- password hasher
\* scrypt(password, salt, 64): a deterministic key derivation without
\* collisions: the derived key is determined by, and determines, both inputs.
scryptAsync(password, salt) == <<"key", password, salt>>

\* `${buf.toString('hex')}.${salt}`: the stored string, as its two parts.
hashPassword(password, salt) == <<scryptAsync(password, salt), salt>>

\* comparePasswords deriving the key with a salt of its own instead of the
\* salt stored with the hash.
comparePasswords_ownSalt(supplied, stored) ==
    LET hashed == stored[1]
        salt == "s0"
    IN  hashed = scryptAsync(supplied, salt)

\* comparePasswords comparing the lengths of the two buffers only.
comparePasswords_lengthOnly(supplied, stored) ==
    LET hashed == stored[1]
        salt == stored[2]
    IN  Len(hashed) = Len(scryptAsync(supplied, salt))

\* stored.split('.') then timingSafeEqual(hashedBuf, suppliedBuf)
comparePasswords(supplied, stored) ==
    LET hashed == stored[1]
        salt == stored[2]
    IN  hashed = scryptAsync(supplied, salt)

\* Whether comparePasswords throws instead of returning: a stored string
\* without '.' leaves `salt` undefined and scrypt rejects it; a hash part
\* that is not as long as the derived key makes timingSafeEqual throw.
comparePasswordsThrows(supplied, stored) ==
    \/ Len(stored) < 2
    \/ Len(stored[1]) # Len(scryptAsync(supplied, stored[2]))

\* ------------------------------------------------------------- token service
NoToken == [form |-> "none", userId |-> 0, username |-> "", iat |-> 0, exp |-> 0, key |-> ""]
Garbage == [form |-> "garbage", userId |-> 0, username |-> "", iat |-> 0, exp |-> 0, key |-> ""]
NoDecoded == [userId |-> 0, username |-> ""]

\* jwt.sign({userId, username}, JWT_SECRET, {expiresIn: JWT_EXPIRES_IN})
generateToken(user, key, t) ==
    [form |-> "jwt", userId |-> user.id, username |-> user.username,
     iat |-> t, exp |-> t + JWT_EXPIRES_IN, key |-> key]

\* verifyToken reading the payload without checking it (jwt.decode).
verifyToken_decodeOnly(token, key, t) ==
    IF token.form = "jwt"
    THEN [userId |-> token.userId, username |-> token.username]
    ELSE NoDecoded

\* verifyToken with the token still accepted at the second it expires.
verifyToken_lateExpiry(token, key, t) ==
    IF token.form = "jwt" /\ token.key = key /\ ~(t > token.exp)
    THEN [userId |-> token.userId, username |-> token.username]
    ELSE NoDecoded

\* jwt.verify(token, JWT_SECRET) inside try/catch: null on any throw.
\* jsonwebtoken throws on a malformed token, on a signature made with another
\* key and when clockTimestamp >= payload.exp.
verifyToken(token, key, t) ==
    IF token.form = "jwt" /\ token.key = key /\ ~(t >= token.exp)
    THEN [userId |-> token.userId, username |-> token.username]
    ELSE NoDecoded

\* ------------------------------------------------------------------ storage
NoUser == [id |-> 0, username |-> "", password |-> <<>>]

\* storage.getUser(id)
getUser(us, id) ==
    IF \E i \in 1..Len(us) : us[i].id = id
    THEN us[CHOOSE i \in 1..Len(us) : us[i].id = id]
    ELSE NoUser

\* storage.getUserByUsername(username): the records the lookup can return.
\* With one record of that name it is that record; the store gives no order
\* among several.
getUserByUsername(us, username) ==
    IF \E i \in 1..Len(us) : us[i].username = username
    THEN {us[i] : i \in {j \in 1..Len(us) : us[j].username = username}}
    ELSE {NoUser}

\* storage.createUser({username, password}): one new record under a new id.
createUser(us, username, password) ==
    Append(us, [id |-> Len(us) + 1, username |-> username, password |-> password])

\* storage.createLeadershipValue(valueData)
createLeadershipValue(vs, value) ==
    Append(vs, [id |-> Len(vs) + 1, value |-> value])

\* The catalog keeps one row per id it ever issued (ids are serial and are
\* not issued again); the row of a deleted value holds Removed.
Removed == "<removed>"
NoValue == [id |-> 0, value |-> Removed]

\* storage.getLeadershipValueById(id): the row, or undefined.
getLeadershipValueById(vs, id) ==
    IF \E i \in 1..Len(vs) : vs[i].id = id /\ vs[i].value # Removed
    THEN vs[CHOOSE i \in 1..Len(vs) : vs[i].id = id /\ vs[i].value # Removed]
    ELSE NoValue

\* storage.updateLeadershipValue(id, valueData): the row of that id takes the
\* new data in one write; no row of that id, no change (undefined returned).
updateLeadershipValue(vs, id, value) ==
    [i \in 1..Len(vs) |->
        IF vs[i].id = id /\ vs[i].value # Removed THEN [vs[i] EXCEPT !.value = value] ELSE vs[i]]

\* storage.deleteLeadershipValue(id): the row of that id is removed; no row
\* of that id, no change.
deleteLeadershipValue(vs, id) ==
    [i \in 1..Len(vs) |->
        IF vs[i].id = id THEN [vs[i] EXCEPT !.value = Removed] ELSE vs[i]]

\* A company code is a string, kept as its characters; <<>> is no code.
NoCode == <<>>
\* A query parameter that the URL does not carry, and one it carries.
NoParam == [present |-> FALSE, value |-> <<>>]
Param(value) == [present |-> TRUE, value |-> value]

\* storage.createSubmission(submissionData)
createSubmission(ss, name, companyCode) ==
    Append(ss, [id |-> Len(ss) + 1, name |-> name, companyCode |-> companyCode])

\* storage.getAllSubmissions()
getAllSubmissions(ss) == ss

\* storage.getSubmissionsByCompanyCode(companyCode): the submissions whose
\* company code is exactly that string.
getSubmissionsByCompanyCode(ss, companyCode) ==
    SelectSeq(ss, LAMBDA sub : sub.companyCode = companyCode)

\* -------------------------------------------------------------- request slot
IdleReq ==
    [kind |-> "none", pc |-> "idle", username |-> "", password |-> "",
     hdr |-> "absent", token |-> NoToken, route |-> "", body |-> "",
     user |-> NoUser, status |-> 0, msg |-> "", out |-> NoToken,
     nexted |-> FALSE, wrote |-> FALSE, fault |-> FALSE,
     path |-> <<>>, query |-> NoParam, rows |-> <<>>, file |-> <<>>, raised |-> FALSE]

Respond(q, status, msg) == [q EXCEPT !.pc = "done", !.status = status, !.msg = msg]

\* The browser's session code: the mutation or query it is running.
\* result: how its last request settled; rejected: the stored token that a
\* gated request was last refused with, until another token is stored.
IdleClient ==
    [op |-> "none", pc |-> "idle", selected |-> <<>>, download |-> <<>>,
     result |-> "", rejected |-> NoToken]

Init ==
    /\ users = <<>>
    /\ lvalues = <<>>
    /\ secret \in Secrets
    /\ now = 0
    /\ authToken = NoToken
    /\ reqs = [r \in Reqs |-> IdleReq]
    /\ submissions = <<>>
    /\ cachedUser = NoUser
    /\ client = IdleClient

\* localStorage 'authToken' after a login or registration answered with
\* `token`: the browser's onSuccess stores it; the answer to another caller
\* leaves the browser's entry as it is. While the browser's own mutation is
\* in flight, its onSuccess is a step of its own (ClientSettle).
Keep(stored, token) == IF client.pc # "wait" THEN {stored, token} ELSE {stored}

\* The token the browser holds, if any.
Held == {authToken} \ {NoToken}

\* The tokens a client can put in an Authorization header: one it was issued
\* and kept, one signed by a third party with its own key, or a string that
\* is no JWT.
Forged == generateToken([id |-> 1, username |-> "alice"], ForeignKey, now)
Presentable == Held \cup {Forged, Garbage}

\* Requests that will still append a record to a store.
PendingUsers == Cardinality({r \in Reqs : reqs[r].kind = "register" /\ reqs[r].pc = "create"})
PendingValues ==
    Cardinality({r \in Reqs : reqs[r].kind = "gated" /\ reqs[r].route = "createValue"
                              /\ reqs[r].pc \in {"getUser", "handler"}})

\* ------------------------------------------------------------ POST /api/login
\* loginUser with a 404 of its own for a username that is not stored.
loginUserLookup_notFound(q, ok, found) ==
    IF ~ok
    THEN Respond([q EXCEPT !.fault = TRUE], 401, "Invalid credentials")
    ELSE IF found = NoUser
    THEN Respond(q, 404, "User not found")
    ELSE [q EXCEPT !.pc = "compare", !.user = found]

\* loginUser from `await storage.getUserByUsername` to the `!user` test, with
\* the route's answer to a null result. ok: the lookup did not throw.
loginUserLookup(q, ok, found) ==
    IF ~ok
    THEN Respond([q EXCEPT !.fault = TRUE], 401, "Invalid credentials")
    ELSE IF found = NoUser
    THEN Respond(q, 401, "Invalid credentials")
    ELSE [q EXCEPT !.pc = "compare", !.user = found]

\* The route up to loginUser's first await and the storage lookup it awaits.
LoginRoute(r, u, p) ==
    /\ reqs[r].pc = "idle"
    /\ LET q == [IdleReq EXCEPT !.kind = "login", !.username = u, !.password = p]
       IN  IF u = Missing \/ p = Missing
           THEN reqs' = [reqs EXCEPT ![r] = Respond(q, 400, "Username and password are required")]
           ELSE \E ok \in BOOLEAN : \E found \in getUserByUsername(users, u) :
                  reqs' = [reqs EXCEPT ![r] = loginUserLookup(q, ok, found)]
    /\ UNCHANGED <<users, lvalues, secret, now, authToken>>

\* comparePasswords, generateToken and the route's answer.
LoginCompare(r) ==
    /\ reqs[r].kind = "login" /\ reqs[r].pc = "compare"
    /\ \E ok \in BOOLEAN :
         LET q == reqs[r]
             token == generateToken(q.user, secret, now)
         IN  IF ~ok
             THEN /\ reqs' = [reqs EXCEPT ![r] =
                                Respond([q EXCEPT !.fault = TRUE], 401, "Invalid credentials")]
                  /\ authToken' = authToken
             ELSE IF comparePasswordsThrows(q.password, q.user.password)
             THEN /\ reqs' = [reqs EXCEPT ![r] =
                                Respond([q EXCEPT !.raised = TRUE], 401, "Invalid credentials")]
                  /\ authToken' = authToken
             ELSE IF ~comparePasswords(q.password, q.user.password)
             THEN /\ reqs' = [reqs EXCEPT ![r] = Respond(q, 401, "Invalid credentials")]
                  /\ authToken' = authToken
             ELSE /\ reqs' = [reqs EXCEPT ![r] = Respond([q EXCEPT !.out = token], 200, "ok")]
                  /\ authToken' \in Keep(authToken, token)
    /\ UNCHANGED <<users, lvalues, secret, now>>

\* --------------------------------------------------------- POST /api/register
\* registerUser without its `if (existingUser)` test.
registerUserLookup_noCheck(q, ok, found) ==
    IF ~ok
    THEN Respond([q EXCEPT !.fault = TRUE], 400, "Username already exists")
    ELSE [q EXCEPT !.pc = "create"]

\* registerUser from `await storage.getUserByUsername` to the existingUser
\* test, with the route's answer to a null result.
registerUserLookup(q, ok, found) ==
    IF ~ok
    THEN Respond([q EXCEPT !.fault = TRUE], 400, "Username already exists")
    ELSE IF found # NoUser
    THEN Respond([q EXCEPT !.user = found], 400, "Username already exists")
    ELSE [q EXCEPT !.pc = "create"]

\* The route up to registerUser's existence check.
RegisterRoute(r, u, p) ==
    /\ reqs[r].pc = "idle"
    /\ Len(users) + PendingUsers < MaxUsers
    /\ LET q == [IdleReq EXCEPT !.kind = "register", !.username = u, !.password = p]
       IN  IF u = Missing \/ p = Missing
           THEN reqs' = [reqs EXCEPT ![r] = Respond(q, 400, "Username and password are required")]
           ELSE \E ok \in BOOLEAN : \E found \in getUserByUsername(users, u) :
                  reqs' = [reqs EXCEPT ![r] = registerUserLookup(q, ok, found)]
    /\ UNCHANGED <<users, lvalues, secret, now, authToken>>

\* hashPassword, storage.createUser, generateToken and the route's answer.
RegisterCreate(r) ==
    /\ reqs[r].kind = "register" /\ reqs[r].pc = "create"
    /\ \E ok \in BOOLEAN : \E salt \in Salts :
         LET q == reqs[r]
             us == createUser(users, q.username, hashPassword(q.password, salt))
             user == us[Len(us)]
             token == generateToken(user, secret, now)
         IN  IF ~ok
             THEN /\ reqs' = [reqs EXCEPT ![r] =
                                Respond([q EXCEPT !.fault = TRUE], 400, "Username already exists")]
                  /\ UNCHANGED <<users, authToken>>
             ELSE /\ users' = us
                  /\ reqs' = [reqs EXCEPT ![r] =
                                Respond([q EXCEPT !.user = user, !.out = token, !.wrote = TRUE],
                                        201, "ok")]
                  /\ authToken' \in Keep(authToken, token)
    /\ UNCHANGED <<lvalues, secret, now>>

\* ------------------------------------------------------------ authenticateToken
GatedRoutes == {"user", "createValue"}
ValueBodies == {"Integrity"}

\* GET, PUT and DELETE /api/leadership-values/:id
IdRoutes == {"getValue", "putValue", "deleteValue"}

\* The characters of a path parameter; parseInt reads the digits.
Digits == {"0", "1", "2", "3", "4", "5", "6", "7", "8", "9"}
DigitValue(c) ==
    CASE c = "0" -> 0 [] c = "1" -> 1 [] c = "2" -> 2 [] c = "3" -> 3 [] c = "4" -> 4
      [] c = "5" -> 5 [] c = "6" -> 6 [] c = "7" -> 7 [] c = "8" -> 8 [] c = "9" -> 9

NaN == [nan |-> TRUE, n |-> 0]
isNaN(x) == x.nan

\* The digits of s from position i on, up to the first character that is
\* not a digit, read as a decimal number after acc.
RECURSIVE parseDigits(_, _, _)
parseDigits(s, i, acc) ==
    IF i > Len(s) \/ s[i] \notin Digits
    THEN acc
    ELSE parseDigits(s, i + 1, acc * 10 + DigitValue(s[i]))

\* parseInt(req.params.id): leading blanks are skipped, then the longest run
\* of digits is the number and whatever follows it is ignored; NaN when no
\* digit comes first.
parseInt(s) ==
    LET blanks == {i \in 1..Len(s) : \A j \in 1..i : s[j] = " "}
        from   == Cardinality(blanks) + 1
    IN  IF from > Len(s) \/ s[from] \notin Digits
        THEN NaN
        ELSE [nan |-> FALSE, n |-> parseDigits(s, from, 0)]

\* authenticateToken answering 403 to a request without a token.
authenticateToken_forbidden(q) ==
    IF q.hdr # "bearer"
    THEN Respond(q, 403, "Access token required")
    ELSE IF verifyToken(q.token, secret, now) = NoDecoded
    THEN Respond(q, 403, "Invalid or expired token")
    ELSE [q EXCEPT !.pc = "getUser"]

\* authenticateToken up to `await storage.getUser`.
\* hdr: "absent" no Authorization header, "bare" a header with no second
\* word, "bearer" a header `Bearer <token>`.
authenticateToken(q) ==
    IF q.hdr # "bearer"
    THEN Respond(q, 401, "Access token required")
    ELSE IF verifyToken(q.token, secret, now) = NoDecoded
    THEN Respond(q, 403, "Invalid or expired token")
    ELSE [q EXCEPT !.pc = "getUser"]

GatedRoute(r, route, hdr, token, body) ==
    /\ reqs[r].pc = "idle"
    /\ route = "createValue" => Len(lvalues) + PendingValues < MaxValues
    /\ hdr = "bearer" <=> token # NoToken
    /\ route # "createValue" => body = Missing
    /\ reqs' = [reqs EXCEPT ![r] =
                  authenticateToken([IdleReq EXCEPT !.kind = "gated", !.route = route,
                                       !.hdr = hdr, !.token = token, !.body = body])]
    /\ UNCHANGED <<users, lvalues, secret, now, authToken>>

\* app.get|put|delete('/api/leadership-values/:id', authenticateToken, ...)
ValueRoute(r, route, hdr, token, path, body) ==
    /\ reqs[r].pc = "idle"
    /\ route \in IdRoutes
    /\ hdr = "bearer" <=> token # NoToken
    /\ route # "putValue" => body = Missing
    /\ reqs' = [reqs EXCEPT ![r] =
                  authenticateToken([IdleReq EXCEPT !.kind = "gated", !.route = route,
                                       !.hdr = hdr, !.token = token, !.path = path,
                                       !.body = body])]
    /\ UNCHANGED <<users, lvalues, secret, now, authToken>>

\* The part of a gated route's handler that runs inside next(), up to the
\* handler's first await.
Handler(q) ==
    IF q.route = "user"
    THEN Respond(q, 200, "user")
    ELSE IF q.route \in IdRoutes
    THEN IF isNaN(parseInt(q.path))
         THEN Respond(q, 400, "Invalid ID format")
         ELSE [q EXCEPT !.pc = "lookup"]
    ELSE IF q.route = "export"
    THEN [q EXCEPT !.pc = "export"]
    ELSE IF q.body = Missing
    THEN Respond(q, 400, "Invalid leadership value data")
    ELSE [q EXCEPT !.pc = "handler"]

\* storage.getUser returns, then req.user = user; next().
AuthGetUser(r) ==
    /\ reqs[r].kind = "gated" /\ reqs[r].pc = "getUser"
    /\ \E ok \in BOOLEAN :
         LET q == reqs[r]
             \* decoded.userId: the payload of the token verifyToken accepted
             user == getUser(users, q.token.userId)
         IN  reqs' = [reqs EXCEPT ![r] =
                IF ~ok
                THEN Respond([q EXCEPT !.fault = TRUE], 500, "Authentication error")
                ELSE IF user = NoUser
                THEN Respond(q, 403, "User not found")
                ELSE Handler([q EXCEPT !.user = user, !.nexted = TRUE])]
    /\ UNCHANGED <<users, lvalues, secret, now, authToken>>

\* POST /api/leadership-values after the body parsed: createLeadershipValue.
CreateValue(r) ==
    /\ reqs[r].kind = "gated" /\ reqs[r].pc = "handler" /\ reqs[r].route = "createValue"
    /\ \E ok \in BOOLEAN :
         LET q == reqs[r]
         IN  IF ~ok
             THEN /\ reqs' = [reqs EXCEPT ![r] =
                       Respond([q EXCEPT !.fault = TRUE], 500,
                               "An error occurred while creating the leadership value")]
                  /\ lvalues' = lvalues
             ELSE /\ lvalues' = createLeadershipValue(lvalues, q.body)
                  /\ reqs' = [reqs EXCEPT ![r] =
                       Respond([q EXCEPT !.wrote = TRUE], 201,
                               "Leadership value created successfully")]
    /\ UNCHANGED <<users, secret, now, authToken>>

\* ------------------------------------------- /api/leadership-values/:id
\* The handler answering 200 without looking the value up.
ValueLookup_noCheck(r) ==
    /\ reqs[r].kind = "gated" /\ reqs[r].pc = "lookup"
    /\ LET q == reqs[r]
       IN  reqs' = [reqs EXCEPT ![r] =
              IF q.route = "getValue" THEN Respond(q, 200, "value")
              ELSE IF q.route = "putValue" THEN [q EXCEPT !.pc = "update"]
              ELSE [q EXCEPT !.pc = "delete"]]
    /\ UNCHANGED <<users, lvalues, secret, now, authToken>>

\* `await storage.getLeadershipValueById(id)` returns: GET answers with the
\* value; PUT and DELETE answer 404 for no value, PUT then parses the body,
\* and both go on to their own storage call.
ValueLookup(r) ==
    /\ reqs[r].kind = "gated" /\ reqs[r].pc = "lookup"
    /\ \E ok \in BOOLEAN :
         LET q == reqs[r]
             value == getLeadershipValueById(lvalues, parseInt(q.path).n)
         IN  reqs' = [reqs EXCEPT ![r] =
                IF ~ok
                THEN Respond([q EXCEPT !.fault = TRUE], 500,
                       IF q.route = "getValue"
                       THEN "An error occurred while fetching the leadership value"
                       ELSE IF q.route = "putValue"
                       THEN "An error occurred while updating the leadership value"
                       ELSE "An error occurred while deleting the leadership value")
                ELSE IF value = NoValue
                THEN Respond(q, 404, "Leadership value not found")
                ELSE IF q.route = "getValue"
                THEN Respond(q, 200, "value")
                ELSE IF q.route = "deleteValue"
                THEN [q EXCEPT !.pc = "delete"]
                ELSE IF q.body = Missing
                THEN Respond(q, 400, "Invalid leadership value data")
                ELSE [q EXCEPT !.pc = "update"]]
    /\ UNCHANGED <<users, lvalues, secret, now, authToken>>

\* The PUT handler answering 200 without writing the body.
ValueUpdate_noWrite(r) ==
    /\ reqs[r].kind = "gated" /\ reqs[r].pc = "update"
    /\ reqs' = [reqs EXCEPT ![r] =
                  Respond(reqs[r], 200, "Leadership value updated successfully")]
    /\ UNCHANGED <<users, lvalues, secret, now, authToken>>

\* `await storage.updateLeadershipValue(id, valueData)` returns, then 200.
ValueUpdate(r) ==
    /\ reqs[r].kind = "gated" /\ reqs[r].pc = "update"
    /\ \E ok \in BOOLEAN :
         LET q == reqs[r]
         IN  IF ~ok
             THEN /\ reqs' = [reqs EXCEPT ![r] =
                       Respond([q EXCEPT !.fault = TRUE], 500,
                               "An error occurred while updating the leadership value")]
                  /\ lvalues' = lvalues
             ELSE /\ lvalues' = updateLeadershipValue(lvalues, parseInt(q.path).n, q.body)
                  /\ reqs' = [reqs EXCEPT ![r] =
                       Respond([q EXCEPT !.wrote = TRUE], 200,
                               "Leadership value updated successfully")]
    /\ UNCHANGED <<users, secret, now, authToken>>

\* `await storage.deleteLeadershipValue(id)` returns, then 200.
ValueDelete(r) ==
    /\ reqs[r].kind = "gated" /\ reqs[r].pc = "delete"
    /\ \E ok \in BOOLEAN :
         LET q == reqs[r]
         IN  IF ~ok
             THEN /\ reqs' = [reqs EXCEPT ![r] =
                       Respond([q EXCEPT !.fault = TRUE], 500,
                               "An error occurred while deleting the leadership value")]
                  /\ lvalues' = lvalues
             ELSE /\ lvalues' = deleteLeadershipValue(lvalues, parseInt(q.path).n)
                  /\ reqs' = [reqs EXCEPT ![r] =
                       Respond([q EXCEPT !.wrote = TRUE], 200,
                               "Leadership value deleted successfully")]
    /\ UNCHANGED <<users, secret, now, authToken>>

\* ------------------------------------------------------ POST /api/submissions
Names == {"Ann"}
All == <<"a", "l", "l">>
CompanyCodes == {<<"x">>, All, <<"x", "&", "y">>}

\* Submissions whose createSubmission call is in flight.
PendingSubmissions ==
    Cardinality({r \in Reqs : reqs[r].kind = "submission" /\ reqs[r].pc = "create"})

\* insertSubmissionSchema.parse(req.body), up to `await createSubmission`.
SubmissionRoute(r, name, companyCode) ==
    /\ reqs[r].pc = "idle"
    /\ Len(submissions) + PendingSubmissions < MaxSubs
    /\ reqs' = [reqs EXCEPT ![r] =
                  LET q == [IdleReq EXCEPT !.kind = "submission", !.username = name,
                                           !.path = companyCode]
                  IN  IF name = Missing
                      THEN Respond(q, 400, "Invalid submission data")
                      ELSE [q EXCEPT !.pc = "create"]]
    /\ UNCHANGED <<users, lvalues, secret, now, authToken, submissions>>

\* storage.createSubmission returns, then 201.
SubmissionCreate(r) ==
    /\ reqs[r].kind = "submission" /\ reqs[r].pc = "create"
    /\ \E ok \in BOOLEAN :
         LET q == reqs[r]
         IN  IF ~ok
             THEN /\ reqs' = [reqs EXCEPT ![r] =
                       Respond([q EXCEPT !.fault = TRUE], 500,
                               "An error occurred while processing your submission")]
                  /\ submissions' = submissions
             ELSE /\ submissions' = createSubmission(submissions, q.username, q.path)
                  /\ reqs' = [reqs EXCEPT ![r] =
                       Respond([q EXCEPT !.wrote = TRUE], 201,
                               "Submission recorded successfully")]
    /\ UNCHANGED <<users, lvalues, secret, now, authToken>>

\* ------------------------------------------------ GET /api/submissions/export
\* A query value as a condition: undefined and '' are false.
Truthy(query) == query.present /\ query.value # <<>>

\* The export filtering whenever the parameter is present.
exportSelect_exact(ss, query) ==
    IF query.present
    THEN getSubmissionsByCompanyCode(ss, query.value)
    ELSE getAllSubmissions(ss)

\* `if (companyCode && companyCode !== 'all')`: the submissions exported.
exportSelect(ss, query) ==
    IF Truthy(query) /\ query.value # All
    THEN getSubmissionsByCompanyCode(ss, query.value)
    ELSE getAllSubmissions(ss)

csvHeader == <<"Name", "Email", "Company Code", "Core Values", "Date Submitted">>
\* One quoted row of a submission; `submission.companyCode || ''`.
csvRow(submission) == <<submission.name, submission.companyCode>>
csvContent(selected) == <<csvHeader>> \o [i \in 1..Len(selected) |-> csvRow(selected[i])]

\* `submissions${companyCode ? `_${companyCode}` : ''}.csv` of the
\* Content-Disposition header, as characters and words.
exportFilename(query) ==
    <<"submissions">> \o (IF Truthy(query) THEN <<"_">> \o query.value ELSE <<>>) \o <<".csv">>

\* app.get('/api/submissions/export', authenticateToken, ...)
ExportRoute(r, hdr, token, query) ==
    /\ reqs[r].pc = "idle"
    /\ hdr = "bearer" <=> token # NoToken
    /\ reqs' = [reqs EXCEPT ![r] =
                  authenticateToken([IdleReq EXCEPT !.kind = "gated", !.route = "export",
                                       !.hdr = hdr, !.token = token, !.query = query])]
    /\ UNCHANGED <<users, lvalues, secret, now, authToken, submissions>>

\* The storage call of the export returns; the CSV and its headers are sent.
ExportRows(r) ==
    /\ reqs[r].kind = "gated" /\ reqs[r].pc = "export"
    /\ \E ok \in BOOLEAN :
         LET q == reqs[r]
         IN  reqs' = [reqs EXCEPT ![r] =
                IF ~ok
                THEN Respond([q EXCEPT !.fault = TRUE], 500,
                             "An error occurred while exporting submissions")
                ELSE Respond([q EXCEPT !.rows = csvContent(exportSelect(submissions, q.query)),
                                       !.file = exportFilename(q.query)],
                             200, "csv")]
    /\ UNCHANGED <<users, lvalues, secret, now, authToken, submissions>>

\* The characters of `s` that reach the server as the value of the first
\* query parameter when `s` is put into the URL as it is: those before the
\* first '&' or '#'.
queryValue(s) ==
    LET stops == {i \in 1..Len(s) : s[i] \in {"&", "#"}}
    IN  IF stops = {} THEN s
        ELSE SubSeq(s, 1, (CHOOSE i \in stops : \A j \in stops : i <= j) - 1)

\* handleExport up to `await apiRequest("GET", url)`: the URL carries the
\* selected company code unless the selection is "all"; apiRequest attaches
\* the stored token.
ClientExport(selected) ==
    /\ client.pc # "wait"
    /\ \/ selected = All
       \/ \E i \in 1..Len(submissions) : submissions[i].companyCode = selected /\ selected # NoCode
    /\ ExportRoute(1, IF authToken = NoToken THEN "absent" ELSE "bearer", authToken,
                   IF selected = All THEN NoParam ELSE Param(queryValue(selected)))
    /\ client' = [client EXCEPT !.op = "export", !.pc = "wait", !.selected = selected,
                                !.download = <<>>, !.result = ""]
    /\ UNCHANGED cachedUser

\* handleExport after the response: a response that is not ok throws inside
\* apiRequest and nothing is downloaded; otherwise link.download is named.
ExportSettle ==
    /\ client.op = "export" /\ client.pc = "wait" /\ reqs[1].pc = "done"
    /\ client' = [client EXCEPT !.pc = "settled",
                     !.result = IF reqs[1].status = 200 THEN "success" ELSE "error",
                     !.download = IF reqs[1].status = 200
                                  THEN <<"submissions">>
                                       \o (IF client.selected # All
                                           THEN <<"_">> \o client.selected ELSE <<>>)
                                       \o <<".csv">>
                                  ELSE <<>>]
    /\ UNCHANGED <<users, lvalues, secret, now, authToken, reqs, submissions, cachedUser>>

\* ----------------------------------------------------------- POST /api/logout
\* A logout that revokes the tokens in circulation by changing the secret.
LogoutRoute_revokes(r) ==
    /\ reqs[r].pc = "idle"
    /\ reqs' = [reqs EXCEPT ![r] =
                  Respond([IdleReq EXCEPT !.kind = "logout"], 200, "Logged out successfully")]
    /\ secret' \in Secrets \ {secret}
    /\ UNCHANGED <<users, lvalues, now, authToken>>

LogoutRoute(r) ==
    /\ reqs[r].pc = "idle"
    /\ reqs' = [reqs EXCEPT ![r] =
                  Respond([IdleReq EXCEPT !.kind = "logout"], 200, "Logged out successfully")]
    /\ UNCHANGED <<users, lvalues, secret, now, authToken>>

\* The response has been sent; the slot stands for a later request.
Finish(r) ==
    /\ reqs[r].pc = "done"
    /\ reqs' = [reqs EXCEPT ![r] = IdleReq]
    /\ UNCHANGED <<users, lvalues, secret, now, authToken>>

\* The process is started again with another JWT_SECRET in its environment:
\* requests in flight are gone, the store and the clients' tokens are not.
Restart ==
    /\ secret' \in Secrets \ {secret}
    /\ reqs' = [r \in Reqs |-> IdleReq]
    /\ UNCHANGED <<users, lvalues, now, authToken>>

\* A day passes.
Tick ==
    /\ now < MaxTime
    /\ now' = now + 1
    /\ UNCHANGED <<users, lvalues, secret, authToken, reqs>>

\* ----------------------------------------------------------- client session
\* The browser starts a request: the mutation or query `op` is in flight.
Starts(op) ==
    /\ client.pc # "wait"
    /\ client' = [client EXCEPT !.op = op, !.pc = "wait", !.result = ""]

\* loginMutation.mutate(credentials): apiRequest("POST", "/api/login").
ClientLogin(u, p) ==
    /\ Starts("login")
    /\ LoginRoute(1, u, p)
    /\ UNCHANGED <<submissions, cachedUser>>

\* registerMutation.mutate(credentials): apiRequest("POST", "/api/register").
ClientRegister(u, p) ==
    /\ Starts("register")
    /\ RegisterRoute(1, u, p)
    /\ UNCHANGED <<submissions, cachedUser>>

\* logoutMutation.mutate(): the mutationFn removes the token first.
ClientLogout ==
    /\ client.pc # "wait" /\ reqs[1].pc = "idle"
    /\ authToken' = NoToken
    /\ client' = [client EXCEPT !.op = "logout", !.pc = "fetch", !.result = ""]
    /\ UNCHANGED <<users, lvalues, secret, now, reqs, submissions, cachedUser>>

\* ... then `await apiRequest("POST", "/api/logout")`.
ClientLogoutFetch ==
    /\ client.op = "logout" /\ client.pc = "fetch"
    /\ LogoutRoute(1)
    /\ client' = [client EXCEPT !.pc = "wait"]
    /\ UNCHANGED <<submissions, cachedUser>>

\* The /api/user query fetches: getQueryFn attaches the stored token.
ClientQuery ==
    /\ Starts("query")
    /\ GatedRoute(1, "user", IF authToken = NoToken THEN "absent" ELSE "bearer",
                  authToken, Missing)
    /\ UNCHANGED <<submissions, cachedUser>>

\* The status of a response that is `res.ok`.
OkStatus(status) == status >= 200 /\ status < 300

\* logoutMutation's callbacks nulling the cached user only on success.
logoutCallbacks_keepUser(ok, token, user) ==
    [token |-> IF ok THEN token ELSE NoToken, user |-> IF ok THEN NoUser ELSE user]

\* logoutMutation's onSuccess (ok) and onError: the stored token and the
\* cached user they leave.
logoutCallbacks(ok, token, user) ==
    [token |-> IF ok THEN token ELSE NoToken, user |-> NoUser]

\* The response arrives, or the fetch fails (delivered = FALSE), and the
\* callbacks of the mutation or the query function run:
\*   login, register: onSuccess stores the token and seeds the cached user;
\*                    onError shows a toast;
\*   logout:          onSuccess nulls the cached user; onError removes the
\*                    token and nulls the cached user;
\*   query:           a 401 is data null; another status that is not ok, or
\*                    a failed fetch, throws and the cached data stays.
ClientSettle ==
    /\ client.pc = "wait" /\ client.op \in {"login", "register", "logout", "query"}
    /\ reqs[1].pc = "done"
    /\ \E delivered \in BOOLEAN :
         LET q == reqs[1]
             ok == delivered /\ OkStatus(q.status)
         IN  CASE client.op \in {"login", "register"} ->
                    /\ authToken' = IF ok THEN q.out ELSE authToken
                    /\ cachedUser' = IF ok THEN q.user ELSE cachedUser
                    /\ client' = [client EXCEPT !.pc = "settled",
                                     !.result = IF ok THEN "success" ELSE "error",
                                     !.rejected = IF ok THEN NoToken ELSE @]
               [] client.op = "logout" ->
                    /\ authToken' = logoutCallbacks(ok, authToken, cachedUser).token
                    /\ cachedUser' = logoutCallbacks(ok, authToken, cachedUser).user
                    /\ client' = [client EXCEPT !.pc = "settled",
                                     !.result = IF ok THEN "success" ELSE "error"]
               [] client.op = "query" ->
                    /\ authToken' = authToken
                    /\ cachedUser' = IF delivered /\ q.status = 401 THEN NoUser
                                     ELSE IF ok THEN q.user
                                     ELSE cachedUser
                    /\ client' = [client EXCEPT !.pc = "settled",
                                     !.result = IF delivered /\ q.status = 401 THEN "null"
                                                ELSE IF ok THEN "success" ELSE "error",
                                     !.rejected = IF delivered /\ q.status \in {401, 403}
                                                     /\ q.token # NoToken
                                                  THEN q.token ELSE @]
    /\ reqs' = [reqs EXCEPT ![1] = IdleReq]
    /\ UNCHANGED <<users, lvalues, secret, now, submissions>>

\* What the server's steps leave alone: the submissions and the browser.
Frame == UNCHANGED <<submissions, cachedUser, client>>

\* Requests served one after the other: every route, the clock and restarts.
Next ==
    \/ \E r \in Serial, u \in Usernames \cup {Missing}, p \in Passwords \cup {Missing} :
         LoginRoute(r, u, p) /\ Frame
    \/ \E r \in Serial : LoginCompare(r) /\ Frame
    \/ \E r \in Serial, u \in Usernames \cup {Missing}, p \in Passwords \cup {Missing} :
         RegisterRoute(r, u, p) /\ Frame
    \/ \E r \in Serial : RegisterCreate(r) /\ Frame
    \/ \E r \in Serial, route \in GatedRoutes, hdr \in {"absent", "bare", "bearer"},
          token \in Presentable \cup {NoToken}, body \in ValueBodies \cup {Missing} :
         GatedRoute(r, route, hdr, token, body) /\ Frame
    \/ \E r \in Serial : AuthGetUser(r) /\ Frame
    \/ \E r \in Serial : CreateValue(r) /\ Frame
    \/ \E r \in Serial : LogoutRoute(r) /\ Frame
    \/ \E r \in Serial : Finish(r) /\ Frame
    \/ Restart /\ Frame
    \/ Tick /\ Frame

Spec == Init /\ [][Next]_vars

\* The account service under overlapping requests: each login and register
\* call interleaves with the others at its await points.
NextConcurrent ==
    \/ \E r \in Reqs, u \in Usernames \cup {Missing}, p \in Passwords \cup {Missing} :
         LoginRoute(r, u, p) /\ Frame
    \/ \E r \in Reqs : LoginCompare(r) /\ Frame
    \/ \E r \in Reqs, u \in Usernames \cup {Missing}, p \in Passwords \cup {Missing} :
         RegisterRoute(r, u, p) /\ Frame
    \/ \E r \in Reqs : RegisterCreate(r) /\ Frame
    \/ \E r \in Reqs : Finish(r) /\ Frame

SpecConcurrent == Init /\ [][NextConcurrent]_vars

\* The path parameters tried: an id the catalog issues, one it never issues,
\* no digit at all, and digits followed or preceded by something else.
IdParams == {<<"1">>, <<"2">>, <<"a">>, <<"1", "x">>, <<" ", "1">>}
PutBodies == {"Integrity", "Courage"}
Admin == "alice"
AdminPassword == "pw1"

\* The catalog's routes by id, served one request after the other to a
\* signed-in administrator.
NextValues ==
    \/ \E r \in Serial : RegisterRoute(r, Admin, AdminPassword) /\ Frame
    \/ \E r \in Serial : RegisterCreate(r) /\ Frame
    \/ \E r \in Serial, body \in ValueBodies \cup {Missing} :
         GatedRoute(r, "createValue", "bearer", authToken, body) /\ Frame
    \/ \E r \in Serial, route \in IdRoutes, hdr \in {"absent", "bearer"}, path \in IdParams,
          body \in PutBodies \cup {Missing} :
         ValueRoute(r, route, hdr, IF hdr = "bearer" THEN authToken ELSE NoToken, path, body)
           /\ Frame
    \/ \E r \in Serial : AuthGetUser(r) /\ Frame
    \/ \E r \in Serial : CreateValue(r) /\ Frame
    \/ \E r \in Serial : ValueLookup(r) /\ Frame
    \/ \E r \in Serial : ValueUpdate(r) /\ Frame
    \/ \E r \in Serial : ValueDelete(r) /\ Frame
    \/ \E r \in Serial : Finish(r) /\ Frame

SpecValues == Init /\ [][NextValues]_vars

\* Two requests of a signed-in administrator in flight at once, aimed at the
\* same ids: they interleave at the awaits of their handlers.
Pair == {1, 2}
SameIds == {<<"1">>, <<"2">>}

NextCatalog ==
    \/ \E r \in Pair : RegisterRoute(r, Admin, AdminPassword) /\ Frame
    \/ \E r \in Pair : RegisterCreate(r) /\ Frame
    \/ \E r \in Pair, body \in ValueBodies :
         GatedRoute(r, "createValue", "bearer", authToken, body) /\ Frame
    \/ \E r \in Pair, route \in {"putValue", "deleteValue"}, path \in SameIds,
          body \in PutBodies \cup {Missing} :
         ValueRoute(r, route, "bearer", authToken, path, body) /\ Frame
    \/ \E r \in Pair : AuthGetUser(r) /\ Frame
    \/ \E r \in Pair : CreateValue(r) /\ Frame
    \/ \E r \in Pair : ValueLookup(r) /\ Frame
    \/ \E r \in Pair : ValueUpdate(r) /\ Frame
    \/ \E r \in Pair : ValueDelete(r) /\ Frame
    \/ \E r \in Pair : Finish(r) /\ Frame

SpecCatalog == Init /\ [][NextCatalog]_vars

\* The browser's session: its mutations and its /api/user query, one at a
\* time, against a server that may restart with another secret between two
\* requests.
NextClient ==
    \/ \E u \in Usernames, p \in Passwords : ClientLogin(u, p)
    \/ \E u \in Usernames, p \in Passwords : ClientRegister(u, p)
    \/ ClientLogout
    \/ ClientLogoutFetch
    \/ ClientQuery
    \/ LoginCompare(1) /\ Frame
    \/ RegisterCreate(1) /\ Frame
    \/ AuthGetUser(1) /\ Frame
    \/ ClientSettle
    \/ Restart /\ client.pc \notin {"wait", "fetch"} /\ Frame

SpecClient == Init /\ [][NextClient]_vars

\* Stored credentials that hashPassword did not write: one without the '.'
\* and its salt, one whose hash part is cut short.
MalformedCredentials ==
    {<<scryptAsync("pw1", "s1")>>, <<SubSeq(scryptAsync("pw1", "s1"), 1, 2), "s1">>}

\* A store that already holds an account whose credential is one of those,
\* or, for comparison, the one hashPassword writes.
InitLegacy ==
    /\ \E stored \in MalformedCredentials \cup {hashPassword("pw1", "s1")} :
         users = <<[id |-> 1, username |-> "alice", password |-> stored]>>
    /\ lvalues = <<>>
    /\ secret \in Secrets
    /\ now = 0
    /\ authToken = NoToken
    /\ reqs = [r \in Reqs |-> IdleReq]
    /\ submissions = <<>>
    /\ cachedUser = NoUser
    /\ client = IdleClient

\* Logins and registrations, one after the other, against that store.
NextLegacy ==
    \/ \E r \in Serial, u \in Usernames \cup {Missing}, p \in Passwords \cup {Missing} :
         LoginRoute(r, u, p) /\ Frame
    \/ \E r \in Serial : LoginCompare(r) /\ Frame
    \/ \E r \in Serial, u \in Usernames \cup {Missing}, p \in Passwords \cup {Missing} :
         RegisterRoute(r, u, p) /\ Frame
    \/ \E r \in Serial : RegisterCreate(r) /\ Frame
    \/ \E r \in Serial : Finish(r) /\ Frame

SpecLegacy == InitLegacy /\ [][NextLegacy]_vars

\* The query values tried by callers of the API: none, empty, a code, 'all'.
ExportQueries == {NoParam, Param(<<>>), Param(<<"x">>), Param(All)}
Browser == UNCHANGED <<cachedUser, client>>

\* Submissions and their export, to a signed-in administrator: requests sent
\* to the API directly and exports started from the submissions page.
NextExport ==
    \/ \E r \in Serial : RegisterRoute(r, Admin, AdminPassword) /\ Frame
    \/ \E r \in Serial : RegisterCreate(r) /\ Frame
    \/ \E r \in Serial, name \in Names \cup {Missing}, code \in CompanyCodes \cup {NoCode} :
         SubmissionRoute(r, name, code) /\ Browser
    \/ \E r \in Serial : SubmissionCreate(r) /\ Browser
    \/ \E r \in Serial, query \in ExportQueries :
         ExportRoute(r, "bearer", authToken, query) /\ client.pc # "wait" /\ Browser
    \/ \E selected \in CompanyCodes : ClientExport(selected)
    \/ \E r \in Serial : AuthGetUser(r) /\ Frame
    \/ \E r \in Serial : ExportRows(r) /\ Browser
    \/ ExportSettle
    \/ \E r \in Serial : Finish(r) /\ client.pc # "wait" /\ Frame

SpecExport == Init /\ [][NextExport]_vars

\* ======================================================================
\* Properties
\* ======================================================================
Gated(q) == q.kind = "gated"
\* The middleware answered itself: the request ended before next().
Rejected(q) == Gated(q) /\ q.pc = "done" /\ ~q.nexted
\* What jsonwebtoken rejects, said without verifyToken: no JWT, another key,
\* or the clock at or past seven days after issue.
BadSignature(t, key) == t.form # "jwt" \/ t.key # key
Expired(t, clock) == clock >= t.iat + JWT_EXPIRES_IN
Stored(us, id) == \E i \in 1..Len(us) : us[i].id = id

\* C1: authenticateToken answers by stage: 401 when the request carries no
\* Authorization header, 403 when a token is presented and verification
\* rejects it, 403 when the token verifies and storage has no user of its
\* userId, 500 when storage.getUser throws; the middleware produces no other
\* status.
C1_StatusByStage ==
    [][\A r \in Reqs :
         LET q == reqs[r]
             n == reqs'[r]
         IN  /\ (q.pc = "idle" /\ Gated(n)) =>
                  /\ n.hdr = "absent" => Rejected(n) /\ n.status = 401
                  /\ (n.hdr = "bearer" /\ (BadSignature(n.token, secret) \/ Expired(n.token, now)))
                        => Rejected(n) /\ n.status = 403
                  /\ (n.hdr = "bearer" /\ ~BadSignature(n.token, secret) /\ ~Expired(n.token, now))
                        => n.pc = "getUser" /\ n.status = 0
             /\ (Gated(q) /\ q.pc = "getUser" /\ Gated(n) /\ n.pc # "getUser") =>
                  /\ n.fault => Rejected(n) /\ n.status = 500
                  /\ (~n.fault /\ ~Stored(users, q.token.userId)) => Rejected(n) /\ n.status = 403
                  /\ (~n.fault /\ Stored(users, q.token.userId)) => n.nexted
             /\ Rejected(n) => n.status \in {401, 403, 500}
    ]_vars

\* C1 witness: a request whose token verified was answered 500 after
\* storage.getUser threw.
C1_Witness ==
    \E r \in Reqs :
        /\ Rejected(reqs[r]) /\ reqs[r].fault /\ reqs[r].status = 500
        /\ reqs[r].token \in Held

\* C2: a gated route's handler runs only for a request whose token has a
\* valid signature and is unexpired when verified and whose userId names a
\* user in storage at lookup, req.user being that stored user; a request
\* stopped by the middleware never reaches next() and mutates no store.
C2_HandlerOnlyWhenAuthenticated ==
    [][\A r \in Reqs :
         LET q == reqs[r]
             n == reqs'[r]
         IN  /\ (q.pc = "idle" /\ Gated(n) /\ ~Rejected(n)) =>
                  /\ ~BadSignature(n.token, secret) /\ ~Expired(n.token, now)
                  /\ ~n.nexted /\ n.pc = "getUser"
             /\ (Gated(n) /\ n.nexted /\ ~q.nexted) =>
                  /\ Gated(q) /\ q.pc = "getUser"
                  /\ Stored(users, q.token.userId)
                  /\ \E i \in 1..Len(users) :
                       users[i] = n.user /\ users[i].id = q.token.userId
             /\ (Gated(n) /\ n.wrote) => n.nexted
             /\ Rejected(n) => ~n.wrote
             /\ lvalues' # lvalues =>
                  \E w \in Reqs : Gated(reqs[w]) /\ reqs[w].nexted /\ reqs'[w].wrote
    ]_vars

\* C2 witness: the handler of POST /api/leadership-values stored a value for
\* a request that passed the middleware.
C2_Witness ==
    \E r \in Reqs :
        /\ Gated(reqs[r]) /\ reqs[r].nexted /\ reqs[r].wrote
        /\ reqs[r].user.id = reqs[r].token.userId

\* The stored records of username u that registerUser made from password p.
RegisteredWith(us, u, p) ==
    {i \in 1..Len(us) :
        us[i].username = u /\ \E salt \in Salts : us[i].password = hashPassword(p, salt)}
HasUsername(us, u) == \E i \in 1..Len(us) : us[i].username = u
Login(q) == q.kind = "login" /\ q.pc = "done" /\ q.username # Missing /\ q.password # Missing
Register(q) == q.kind = "register" /\ q.pc = "done"

\* C3: after registerUser(u, p) stored u, and any number of other register
\* and login calls, loginUser(u, p) returns {user, token}, and verifyToken
\* accepts the token and yields the registered user's id and username.
C3_RegisterThenLogin ==
    \A r \in Reqs :
        LET q == reqs[r]
            mine == RegisteredWith(users, q.username, q.password)
        IN  (Login(q) /\ ~q.fault /\ mine # {}) =>
                /\ q.status = 200 /\ q.out # NoToken
                /\ \E i \in mine :
                     /\ q.user = users[i]
                     /\ verifyToken(q.out, secret, q.out.iat)
                          = [userId |-> users[i].id, username |-> q.username]

\* C3 witness: a login with the registered credentials was answered with a
\* token, after a second user had been registered.
C3_Witness ==
    \E r \in Reqs :
        /\ Login(reqs[r]) /\ reqs[r].status = 200
        /\ RegisteredWith(users, reqs[r].username, reqs[r].password) # {}
        /\ Len(users) = 2

\* C4: loginUser with a stored username and a password other than the
\* registered one returns null and issues no token; with the registered
\* password it returns a token whose username is the username supplied.
C4_LoginPasswordDecides ==
    \A r \in Reqs :
        LET q == reqs[r]
            mine == RegisteredWith(users, q.username, q.password)
        IN  /\ (Login(q) /\ HasUsername(users, q.username) /\ mine = {}) =>
                 q.status = 401 /\ q.out = NoToken /\ q.out \notin Held
            /\ (Login(q) /\ ~q.fault /\ mine # {}) =>
                 q.out.form = "jwt" /\ q.out.username = q.username
            /\ (Login(q) /\ q.out # NoToken) => q.out.username = q.username

\* C4 witness: a login with a stored username and another password than the
\* registered one was answered 401 without a storage or hashing fault.
C4_Witness ==
    \E r \in Reqs :
        /\ Login(reqs[r]) /\ ~reqs[r].fault /\ reqs[r].status = 401
        /\ reqs[r].user # NoUser
        /\ RegisteredWith(users, reqs[r].username, reqs[r].password) = {}

\* C5: registerUser for a username an earlier, completed registerUser call
\* stored returns null without calling storage.createUser, the stored users
\* stay as they are, and POST /api/register answers 400.
C5_DuplicateRegistrationRefused ==
    [][\A r \in Reqs :
         LET q == reqs[r]
             n == reqs'[r]
         IN  (q.pc = "idle" /\ n.kind = "register" /\ HasUsername(users, n.username)) =>
                 /\ Register(n) /\ n.status = 400
                 /\ n.out = NoToken /\ ~n.wrote
                 /\ users' = users /\ authToken' = authToken
    ]_vars

\* C5 witness: a second registration of a stored username was answered
\* 'Username already exists' because the lookup found the stored record.
C5_Witness ==
    \E r \in Reqs :
        /\ Register(reqs[r]) /\ reqs[r].status = 400 /\ ~reqs[r].fault
        /\ reqs[r].user # NoUser /\ reqs[r].user.username = reqs[r].username
        /\ HasUsername(users, reqs[r].username)

\* C6: under every interleaving of registerUser calls no two stored users
\* have the same username, and of the calls for one username at most one
\* returns {user, token}.
C6_UsernamesUnique ==
    /\ \A i, j \in 1..Len(users) : users[i].username = users[j].username => i = j
    /\ \A r1, r2 \in Reqs :
         (/\ Register(reqs[r1]) /\ reqs[r1].status = 201
          /\ Register(reqs[r2]) /\ reqs[r2].status = 201
          /\ reqs[r1].username = reqs[r2].username) => r1 = r2

\* C7: a storage or hashing fault during loginUser or registerUser reaches
\* the caller as a failure other than the business failures: the routes
\* never answer 401 'Invalid credentials' or 400 'Username already exists'
\* for it.
C7_FaultIsNotBusinessFailure ==
    \A r \in Reqs :
        LET q == reqs[r]
        IN  (q.kind \in {"login", "register"} /\ q.pc = "done" /\ q.fault) =>
                /\ ~(q.status = 401 /\ q.msg = "Invalid credentials")
                /\ ~(q.status = 400 /\ q.msg = "Username already exists")

\* The supplied password does not open an account: no record was found, or
\* the record found was made from another password.
NoMatch(q) == q.user = NoUser \/ ~comparePasswords(q.password, q.user.password)
Answer(q) == <<q.status, q.msg, q.out>>

\* C8: two POST /api/login requests with the same username and the same
\* password that does not match get the same answer, whether or not the
\* username was stored when each was served.
C8_LoginUniform ==
    \A r1, r2 \in Reqs :
        LET a == reqs[r1]
            b == reqs[r2]
        IN  (/\ a.kind = "login" /\ a.pc = "done" /\ b.kind = "login" /\ b.pc = "done"
             /\ a.username = b.username /\ a.password = b.password
             /\ NoMatch(a) /\ NoMatch(b)) =>
                /\ Answer(a) = Answer(b)
                /\ (a.password # Missing /\ a.username # Missing) =>
                      Answer(a) = <<401, "Invalid credentials", NoToken>>

\* C8 witness: of two answered logins with one username and password, one
\* found no record and the other found a record of another password.
C8_Witness ==
    \E r1, r2 \in Reqs :
        /\ Login(reqs[r1]) /\ Login(reqs[r2])
        /\ reqs[r1].username = reqs[r2].username /\ reqs[r1].password = reqs[r2].password
        /\ ~reqs[r1].fault /\ reqs[r1].user = NoUser
        /\ ~reqs[r2].fault /\ reqs[r2].user # NoUser /\ NoMatch(reqs[r2])

\* C9: verifyToken returns null for every token that is expired (the clock
\* at or after issue + 7 days), signed with another secret than the
\* process's, or malformed; it returns {userId, username} only for a token
\* generateToken issued under the process's secret, before its expiry.
C9_VerifyToken ==
    \A t \in Presentable :
        LET decoded == verifyToken(t, secret, now)
        IN  /\ (BadSignature(t, secret) \/ Expired(t, now)) => decoded = NoDecoded
            /\ decoded # NoDecoded =>
                 /\ t \in Held /\ ~BadSignature(t, secret) /\ ~Expired(t, now)
                 /\ decoded = [userId |-> t.userId, username |-> t.username]
                 /\ \E i \in 1..Len(users) : t = generateToken(users[i], secret, t.iat)

\* C9 witness: a kept token signed with the process's secret on the day it
\* expires.
C9_Witness ==
    \E t \in Held : t.key = secret /\ now = t.iat + JWT_EXPIRES_IN

\* What authenticateToken decides for token t when storage answers.
Accepted(t) == verifyToken(t, secret, now) # NoDecoded /\ getUser(users, t.userId) # NoUser

\* C10: POST /api/logout changes no server-side state, and a token
\* authenticateToken accepts stays accepted over every step, logout
\* included, that is neither the clock reaching its expiry nor a change of
\* the secret.
C10_LogoutKeepsTokens ==
    [][/\ \A t \in Held :
            (Accepted(t) /\ ~Accepted(t)') => (now' # now \/ secret' # secret)
       /\ \A r \in Reqs :
            (reqs[r].pc = "idle" /\ reqs'[r].kind = "logout") =>
                /\ UNCHANGED <<users, lvalues, secret, now>>
                /\ \A t \in Held : Accepted(t) => Accepted(t)'
    ]_vars

\* C10 witness: a logout was answered while the client keeps a token that
\* authenticateToken accepts.
C10_Witness ==
    \E r \in Reqs :
        /\ reqs[r].kind = "logout" /\ reqs[r].pc = "done" /\ reqs[r].status = 200
        /\ \E t \in Held : Accepted(t)

\* A request for a catalog value by id that authenticateToken let through.
ById(q) == Gated(q) /\ q.route \in IdRoutes /\ q.nexted
\* A numeric integer string: digits and nothing else.
NumericString(s) == Len(s) > 0 /\ \A i \in 1..Len(s) : s[i] \in Digits
\* The number a numeric integer string denotes, digit by digit.
RECURSIVE Decimal(_)
Decimal(s) ==
    IF Len(s) = 0 THEN 0
    ELSE 10 * Decimal(SubSeq(s, 1, Len(s) - 1)) + DigitValue(s[Len(s)])
\* The catalog holds a value of this id.
InCatalog(vs, id) == \E i \in 1..Len(vs) : vs[i].id = id /\ vs[i].value # Removed

\* C11: an authenticated GET, PUT or DELETE /api/leadership-values/:id whose
\* id is an integer that no catalog value has is answered, when the lookup
\* itself does not fail, with 404 'Leadership value not found'; the catalog
\* is as it was and the request never reaches updateLeadershipValue or
\* deleteLeadershipValue.
C11_MissingIdIs404 ==
    [][\A r \in Reqs :
         LET q == reqs[r]
             n == reqs'[r]
         IN  (/\ ById(q) /\ NumericString(q.path)
              /\ ~InCatalog(lvalues, Decimal(q.path))
              /\ q.pc = "lookup" /\ n.pc # "lookup" /\ ~n.fault)
             => /\ n.pc = "done" /\ n.status = 404 /\ n.msg = "Leadership value not found"
                /\ ~n.wrote
                /\ lvalues' = lvalues
    ]_vars

\* C11 witness: with a value in the catalog, a PUT and a DELETE for the id 2
\* that no value has were answered 404.
C11_Witness ==
    /\ InCatalog(lvalues, 1)
    /\ \E r \in Reqs :
         /\ ById(reqs[r]) /\ reqs[r].route \in {"putValue", "deleteValue"}
         /\ reqs[r].path = <<"2">> /\ reqs[r].pc = "done" /\ reqs[r].status = 404

\* C12: an authenticated request for /api/leadership-values/:id whose :id is
\* not a numeric integer string is answered 400 'Invalid ID format' inside
\* the handler's first step, before any storage call.
C12_NonNumericIdIs400 ==
    \A r \in Reqs :
        (ById(reqs[r]) /\ ~NumericString(reqs[r].path)) =>
            /\ reqs[r].pc = "done"
            /\ reqs[r].status = 400 /\ reqs[r].msg = "Invalid ID format"
            /\ ~reqs[r].wrote

\* The id a request for a catalog value names.
IdOf(q) == parseInt(q.path).n
\* The step in which request r's storage call `pc` returns.
Returns(r, pc) == reqs[r].pc = pc /\ reqs'[r].pc # pc
\* A PUT with a body the schema accepts.
ValidPut(q) == ById(q) /\ q.route = "putValue" /\ q.body \in PutBodies

\* C17: PUT requests in flight together for the same stored id, with valid
\* bodies: each one that finds the value goes on to updateLeadershipValue,
\* and when that call returns without a fault on a value still stored the
\* request answers 200 and the stored value is exactly that request's body,
\* every other row as it was; the catalog changes in no other step than a
\* create, update or delete call returning. So after both the value is the
\* body of the request whose update ran last.
C17_LastUpdateWins ==
    [][/\ \A r \in Reqs :
            LET q == reqs[r]
                n == reqs'[r]
            IN  (ValidPut(q) /\ InCatalog(lvalues, IdOf(q)) /\ ~n.fault) =>
                  /\ Returns(r, "lookup") => n.pc = "update"
                  /\ Returns(r, "update") =>
                        /\ n.pc = "done" /\ n.status = 200
                        /\ n.msg = "Leadership value updated successfully"
                        /\ Len(lvalues') = Len(lvalues)
                        /\ \A i \in 1..Len(lvalues) :
                              lvalues'[i] = IF lvalues[i].id = IdOf(q)
                                            THEN [id |-> IdOf(q), value |-> q.body]
                                            ELSE lvalues[i]
       /\ lvalues' # lvalues =>
            \E r \in Reqs : /\ reqs'[r].wrote
                            /\ \/ Returns(r, "handler")
                               \/ Returns(r, "update")
                               \/ Returns(r, "delete")
    ]_vars

\* C17 witness: two PUT requests for value 1 with different bodies were both
\* answered 200 and the catalog holds the body of one of them whole.
C17_Witness ==
    /\ ValidPut(reqs[1]) /\ ValidPut(reqs[2])
    /\ reqs[1].path = <<"1">> /\ reqs[2].path = <<"1">>
    /\ reqs[1].body # reqs[2].body
    /\ \A r \in Pair : reqs[r].pc = "done" /\ reqs[r].status = 200 /\ reqs[r].wrote
    /\ getLeadershipValueById(lvalues, 1).value = reqs[1].body

\* C19: a PUT or DELETE /api/leadership-values/:id answers 200 only when its
\* update or delete call ran on a value that was still stored: the
\* existence check and the mutation act as one step.
C19_CheckAndMutateAtomic ==
    [][\A r \in Reqs :
         LET q == reqs[r]
             n == reqs'[r]
         IN  (/\ ById(q)
              /\ Returns(r, "update") \/ Returns(r, "delete")
              /\ n.status = 200)
             => InCatalog(lvalues, IdOf(q))
    ]_vars

\* An export that was answered with the CSV.
Exported(q) == Gated(q) /\ q.route = "export" /\ q.pc = "done" /\ q.status = 200
\* The stored submissions whose company code is exactly `code`, in order.
WithCode(code) == SelectSeq(submissions, LAMBDA sub : sub.companyCode = code)
\* The CSV of a sequence of submissions: the header row, then a row each.
Csv(selected) ==
    <<csvHeader>> \o [i \in 1..Len(selected) |-> <<selected[i].name, selected[i].companyCode>>]

\* C13 as stated: the export holds the header row and one row per selected
\* submission, the selection being every submission when companyCode is
\* omitted and, for every value of a companyCode that is present, exactly
\* the submissions with that company code.
C13_ExportSelection ==
    \A r \in Reqs :
        Exported(reqs[r]) =>
            reqs[r].rows = Csv(IF reqs[r].query.present
                               THEN WithCode(reqs[r].query.value)
                               ELSE submissions)

\* C13 amended: the export holds the header row and one row per selected
\* submission; the selection is exactly the submissions with the given
\* company code when companyCode is present, not empty and not 'all', and
\* every submission when it is omitted, empty or 'all'.
C13_ExportSelectionExceptAll ==
    \A r \in Reqs :
        Exported(reqs[r]) =>
            LET query == reqs[r].query
                selected == IF query.present /\ query.value \notin {<<>>, All}
                            THEN WithCode(query.value)
                            ELSE submissions
            IN  /\ reqs[r].rows = Csv(selected)
                /\ reqs[r].rows[1] = csvHeader
                /\ Len(reqs[r].rows) = 1 + Len(selected)

\* C13 witness: with a submission of company x and one of another company
\* stored, an export for companyCode=x was answered with the header and
\* the one row of x.
C13_Witness ==
    \E r \in Reqs :
        /\ Exported(reqs[r]) /\ reqs[r].query = Param(<<"x">>)
        /\ Len(submissions) = 2 /\ Len(WithCode(<<"x">>)) = 1
        /\ Len(reqs[r].rows) = 2

\* C14: the Content-Disposition header of an export names submissions.csv
\* with the rows of every submission, or submissions_<code>.csv with the
\* rows of exactly the submissions of company <code>; and the name the
\* submissions page gives the download is the one in the header.
C14_FilenameAgreesWithRows ==
    [][/\ \A r \in Reqs :
            LET n == reqs'[r]
            IN  (Returns(r, "export") /\ n.status = 200) =>
                  \/ /\ n.file = <<"submissions", ".csv">>
                     /\ n.rows = Csv(submissions)
                  \/ /\ n.query.value # <<>>
                     /\ n.file = <<"submissions", "_">> \o n.query.value \o <<".csv">>
                     /\ n.rows = Csv(WithCode(n.query.value))
       /\ (client.pc = "wait" /\ client'.pc = "settled" /\ Exported(reqs[1])) =>
            client'.download = reqs[1].file
    ]_vars

\* A stored credential that hashPassword cannot have written.
Malformed(stored) ==
    \/ Len(stored) # 2
    \/ Len(stored[1]) # Len(hashPassword("pw1", "s1")[1])

\* C16: verifying a password against a malformed stored credential yields
\* false and raises nothing: comparePasswords returns for it, and the login
\* of that user is answered as a business failure (401, no token).
C16_MalformedCredentialIsFalse ==
    \A r \in Reqs :
        (Login(reqs[r]) /\ reqs[r].user # NoUser /\ Malformed(reqs[r].user.password)) =>
            /\ ~reqs[r].raised
            /\ reqs[r].pc = "done" =>
                  reqs[r].status = 401 /\ reqs[r].out = NoToken

\* The step in which the browser's mutation or query `op` settles.
Settles(op) == client.op = op /\ client.pc = "wait" /\ client'.pc = "settled"

\* C15: when the logout mutation settles, with the POST /api/logout
\* answered or failed, localStorage holds no authToken and the cached
\* /api/user is null; when a login or registration settles as a success the
\* returned token is stored and the cached user is the returned user; when
\* it settles as a failure neither has changed.
C15_SessionAfterMutation ==
    [][/\ Settles("logout") => (authToken' = NoToken /\ cachedUser' = NoUser)
       /\ \A op \in {"login", "register"} :
            Settles(op) =>
              /\ client'.result = "success" =>
                    /\ OkStatus(reqs[1].status)
                    /\ reqs[1].out # NoToken /\ authToken' = reqs[1].out
                    /\ reqs[1].user # NoUser /\ cachedUser' = reqs[1].user
              /\ client'.result # "success" =>
                    (authToken' = authToken /\ cachedUser' = cachedUser)
              /\ ~OkStatus(reqs[1].status) => client'.result # "success"
    ]_vars

\* C15 witness: a browser that had logged in settled a logout whose request
\* failed, and holds neither token nor user; the account it used is stored.
C15_Witness ==
    /\ client.op = "logout" /\ client.pc = "settled" /\ client.result = "error"
    /\ authToken = NoToken /\ cachedUser = NoUser
    /\ Len(users) > 0

\* C18: a stored token with which a gated request of the browser was
\* refused (401 or 403) is not attached to a later request: by then the
\* browser has removed it.
C18_RejectedTokenNotReused ==
    [][(client.pc # "wait" /\ client'.pc = "wait" /\ client.rejected # NoToken) =>
          reqs'[1].token # client.rejected
    ]_vars
====
